---- MODULE Spec2Model ----
(***************************************************************************)
(* Input-to-action dispatch of the roguelike: the event handlers of        *)
(* input_handlers.py (MainGame, InventoryActivate, InventoryDrop,          *)
(* HistoryViewer, GameOver), the turn protocol of handle_action and the    *)
(* collaborators they call (message log, actions, engine).                 *)
(*                                                                         *)
(* One input event is processed to completion before the next arrives:     *)
(* pc is the position of the single thread of control inside               *)
(* handle_events / handle_action, "idle" between two events.  The frame of  *)
(* handle_events (self, event, action, ...) lives from the arrival of an   *)
(* event to the return of handle_events.                                   *)
(***************************************************************************)
EXTENDS Integers, Sequences, FiniteSets, TLC

\* ------------------------------------------------------------- bounds
\* Messages the log may hold after construction before appends are cut off.
MaxLog == 2
\* Distinct item objects of the world.
NumItems == 2
\* Longest message log a history viewer is opened on in SpecHistory.
MaxHistory == 12
\* Width of the game map, which is one tile high.
MapWidth == 2
\* Largest x-coordinate of the player an inventory menu is rendered for.
MaxPlayerX == 79

\* ------------------------------------------------------------- keys
\* tcod.event.KeySym: the SDL key codes the handlers name, and a few they
\* do not (BACKQUOTE is the code below a, LEFTBRACE the code after z).
KeySym ==
  [ a |-> 97, b |-> 98, c |-> 99, d |-> 100, g |-> 103, h |-> 104, i |-> 105,
    j |-> 106, k |-> 107, l |-> 108, n |-> 110, u |-> 117, v |-> 118,
    y |-> 121, z |-> 122,
    BACKQUOTE |-> 96, LEFTBRACE |-> 123,
    RETURN |-> 13, ESCAPE |-> 27, SPACE |-> 32, PERIOD |-> 46,
    RIGHT |-> 1073741903, LEFT |-> 1073741904,
    DOWN |-> 1073741905, UP |-> 1073741906,
    HOME |-> 1073741898, PAGEUP |-> 1073741899,
    END |-> 1073741901, PAGEDOWN |-> 1073741902,
    KP_1 |-> 1073741913, KP_2 |-> 1073741914, KP_3 |-> 1073741915,
    KP_4 |-> 1073741916, KP_5 |-> 1073741917, KP_6 |-> 1073741918,
    KP_7 |-> 1073741919, KP_8 |-> 1073741920, KP_9 |-> 1073741921,
    CLEAR |-> 1073741980,
    LCTRL |-> 1073742048, LSHIFT |-> 1073742049, LALT |-> 1073742050,
    RCTRL |-> 1073742052, RSHIFT |-> 1073742053, RALT |-> 1073742054 ]

Letters == KeySym.a .. KeySym.z

\* The key presses the event source delivers in the model: the keys named
\* above but the numpad's direction keys and two keys no handler names,
\* and of the letters no handler names a, c and z only (e, f, m, o, p, q,
\* r, s, t, w and x are keys like c to every handler).
Keys ==
  { KeySym[f] : f \in DOMAIN KeySym }
    \ { KeySym.KP_1, KeySym.KP_2, KeySym.KP_3, KeySym.KP_4,
        KeySym.KP_6, KeySym.KP_7, KeySym.KP_8, KeySym.KP_9,
        KeySym.SPACE, KeySym.CLEAR }

\* The tiles the mouse moves to in the model: the row of the map with the
\* tile off its right end, and one tile below the map.
Tiles ==
  { <<x, 0>> : x \in 0 .. MapWidth } \cup { <<0, 1>> }

\* MOVE_KEYS, as the function from key to (dx, dy).
MOVE_KEYS ==
  [ key \in { KeySym.UP, KeySym.DOWN, KeySym.LEFT, KeySym.RIGHT,
              KeySym.HOME, KeySym.END, KeySym.PAGEUP, KeySym.PAGEDOWN,
              KeySym.KP_1, KeySym.KP_2, KeySym.KP_3, KeySym.KP_4,
              KeySym.KP_6, KeySym.KP_7, KeySym.KP_8, KeySym.KP_9,
              KeySym.h, KeySym.j, KeySym.k, KeySym.l,
              KeySym.y, KeySym.u, KeySym.b, KeySym.n } |->
      CASE key \in {KeySym.UP, KeySym.KP_8, KeySym.k}       -> <<0, -1>>
        [] key \in {KeySym.DOWN, KeySym.KP_2, KeySym.j}     -> <<0, 1>>
        [] key \in {KeySym.LEFT, KeySym.KP_4, KeySym.h}     -> <<-1, 0>>
        [] key \in {KeySym.RIGHT, KeySym.KP_6, KeySym.l}    -> <<1, 0>>
        [] key \in {KeySym.HOME, KeySym.KP_7, KeySym.y}     -> <<-1, -1>>
        [] key \in {KeySym.END, KeySym.KP_1, KeySym.b}      -> <<-1, 1>>
        [] key \in {KeySym.PAGEUP, KeySym.KP_9, KeySym.u}   -> <<1, -1>>
        [] key \in {KeySym.PAGEDOWN, KeySym.KP_3, KeySym.n} -> <<1, 1>> ]

WAIT_KEYS == { KeySym.PERIOD, KeySym.KP_5, KeySym.CLEAR }

\* The keys AskUserEventHandler.ev_keydown ignores.
MODIFIER_KEYS == { KeySym.LSHIFT, KeySym.RSHIFT, KeySym.LCTRL,
                   KeySym.RCTRL, KeySym.LALT, KeySym.RALT }

CURSOR_Y_KEYS ==
  [ key \in { KeySym.UP, KeySym.DOWN, KeySym.PAGEUP, KeySym.PAGEDOWN } |->
      CASE key = KeySym.UP       -> -1
        [] key = KeySym.DOWN     -> 1
        [] key = KeySym.PAGEUP   -> -10
        [] key = KeySym.PAGEDOWN -> 10 ]

\* ------------------------------------------------------------- values
Handlers == { "MainGame", "InventoryActivate", "InventoryDrop",
              "HistoryViewer", "GameOver" }
InventoryHandlers == { "InventoryActivate", "InventoryDrop" }
\* The subclasses of AskUserEventHandler.
AskUserHandlers == InventoryHandlers

Items == 1 .. NumItems

\* Optional[Action]: None, or an action <<kind, entity, dx, dy, item>>.
None == << "None", "", 0, 0, 0 >>
BumpAction(entity, dx, dy) == << "BumpAction", entity, dx, dy, 0 >>
WaitAction(entity) == << "WaitAction", entity, 0, 0, 0 >>
PickupAction(entity) == << "PickupAction", entity, 0, 0, 0 >>
DropItem(entity, item) == << "DropItem", entity, 0, 0, item >>
\* item.consumable.get_action(consumer): the use action the item builds.
GetAction(item, consumer) == << "ItemAction", consumer, 0, 0, item >>
Kind(a) == a[1]
Entity(a) == a[2]
Item(a) == a[5]

\* Input events <<type, sym, tile x, tile y>>: key-down, mouse-move,
\* mouse-button-down, quit, and any other event, for which EventDispatch
\* has no method and returns None.
KeyDown(sym) == << "KeyDown", sym, 0, 0 >>
MouseMotion(x, y) == << "MouseMotion", 0, x, y >>
MouseButtonDown == << "MouseButtonDown", 0, 0, 0 >>
Quit == << "Quit", 0, 0, 0 >>
OtherEvent == << "Other", 0, 0, 0 >>
NoEvent == << "NoEvent", 0, 0, 0 >>
Type(e) == e[1]
Sym(e) == e[2]
TileX(e) == e[3]
TileY(e) == e[4]

\* Messages <<text, category>> (color.impossible, color.invalid, other text).
Message(text, category) == << text, category >>
Reasons == { "That way is blocked.", "There is nothing here to pick up." }
Narrative == Message("The Orc attacks Player.", "narrative")
InvalidEntry == Message("Invalid entry.", "invalid")

\* perform's outcome <<outcome, reason>>: not called, returned, raised
\* Impossible(reason), or raised anything else.
NotCalled == << "NotCalled", "" >>
Succeeded == << "Succeeded", "" >>
Impossible(reason) == << "Impossible", reason >>
Fatal == << "Fatal", "" >>
Outcome(r) == r[1]
Reason(r) == r[2]

Range(s) == { s[n] : n \in 1 .. Len(s) }
Remove(s, x) == SelectSeq(s, LAMBDA e : e # x)

\* ------------------------------------------------------------- state
VARIABLES
  event_handler,   \* engine.event_handler: the active handler variant
  message_log,     \* engine.message_log.messages
  items,           \* engine.player.inventory.items
  mouse_location,  \* engine.mouse_location
  log_length,      \* HistoryViewer.log_length
  cursor,          \* HistoryViewer.cursor
  pc,              \* position of the thread of control
  self,            \* the handler handle_events runs on
  receiver,        \* the handler handle_action runs on
  event,           \* the event being processed
  action,          \* what dispatch(event) returned
  perform_result,  \* the outcome of action.perform()
  super_ret,       \* what EventHandler.handle_action returned to AskUser
  returned,        \* what handle_action returned
  calls,           \* collaborator calls of this event, in order
  pre_len,         \* length of the message log when the event arrived
  rendered,        \* the inventory frame on_render drew last, and for whom
  tally            \* succeeded performs less enemy turns, succeeded performs
                   \* less view recomputes, failed performs less impossible
                   \* messages, over the whole run

vars == << event_handler, message_log, items, mouse_location, log_length,
           cursor, pc, self, receiver, event, action, perform_result,
           super_ret, returned, calls, pre_len, rendered, tally >>

\* ------------------------------------------------------------- collaborators
\* MessageLog.add_message(text, fg): the log is an append-only sequence.
add_message(log, text, category) == Append(log, Message(text, category))

\* GameMap.in_bounds(x, y).
in_bounds(x, y) == 0 <= x /\ x < MapWidth /\ y = 0

\* The inventories a successful perform of action a may leave behind: a
\* pickup adds an item of the world, a drop removes its item, a use
\* consumes its item or keeps it, moving and waiting touch nothing.
PerformItems(a, inv) ==
  CASE Kind(a) = "PickupAction" -> { Append(inv, it) : it \in Items \ Range(inv) }
    [] Kind(a) = "DropItem"     -> { Remove(inv, Item(a)) }
    [] Kind(a) = "ItemAction"   -> { Remove(inv, Item(a)), inv }
    [] OTHER                    -> { inv }

\* The logs a collaborator that may report one message leaves behind.
MayReport(log) ==
  {log} \cup (IF Len(log) < MaxLog THEN { Append(log, Narrative) } ELSE {})

\* Fighter.die() for the player: the engine's handler becomes GameOver.
PlayerDies(died, handler) == IF died THEN "GameOver" ELSE handler

\* ------------------------------------------------------------- accounting
\* The messages of the impossible category in a log.
Impossibles(log) == Len(SelectSeq(log, LAMBDA m : m[2] = "impossible"))

\* The tally after a step in which so many performs succeeded, enemy turns
\* and view recomputes ran and performs failed with Impossible.
Tallied(succeeded, enemy_turns, recomputes, failed) ==
  tally' = << tally[1] + succeeded - enemy_turns,
              tally[2] + succeeded - recomputes,
              tally[3] + failed
                - ( IF message_log' = message_log
                    THEN 0
                    ELSE Impossibles(message_log') - Impossibles(message_log) ) >>

\* ------------------------------------------------------------- dispatch
\* An ev_* method ends by returning an action or None to handle_events, or
\* by raising SystemExit through it.
Return(a) == action' = a /\ pc' = "handle_action"
SystemExit == action' = None /\ pc' = "exited"

\* __init__ that takes the last index for the length of the log.
HistoryViewer_init_last_index ==
  /\ log_length' = Len(message_log) - 1
  /\ cursor' = Len(message_log) - 1

\* HistoryViewer.__init__: the log's length and its last index.
HistoryViewer_init ==
  /\ log_length' = Len(message_log)
  /\ cursor' = Len(message_log) - 1

\* The engine's handler becomes MainGameEventHandler(engine); a history
\* viewer is discarded with its cursor.
MainGameEventHandler_init ==
  /\ event_handler' = "MainGame"
  /\ log_length' = 0
  /\ cursor' = -1

\* ev_quit that returns None instead of raising SystemExit.
ev_quit_returns ==
  /\ Return(None)
  /\ UNCHANGED << event_handler, message_log, mouse_location, log_length, cursor >>

\* EventHandler.ev_quit
ev_quit ==
  /\ SystemExit
  /\ UNCHANGED << event_handler, message_log, mouse_location, log_length, cursor >>

\* ev_mousemotion without the in_bounds test.
ev_mousemotion_unchecked(x, y) ==
  /\ mouse_location' = <<x, y>>
  /\ Return(None)
  /\ UNCHANGED << event_handler, message_log, log_length, cursor >>

\* EventHandler.ev_mousemotion
ev_mousemotion(x, y) ==
  /\ mouse_location' = IF in_bounds(x, y) THEN <<x, y>> ELSE mouse_location
  /\ Return(None)
  /\ UNCHANGED << event_handler, message_log, log_length, cursor >>

\* EventDispatch's default for an event the handler has no method for.
ev_default ==
  /\ Return(None)
  /\ UNCHANGED << event_handler, message_log, mouse_location, log_length, cursor >>

\* AskUserEventHandler.on_exit
on_exit ==
  /\ MainGameEventHandler_init
  /\ Return(None)
  /\ UNCHANGED << message_log, mouse_location >>

\* ev_keydown without the modifier test: every key exits the prompt.
AskUser_ev_keydown_exits_on_modifiers(key) == on_exit

\* AskUserEventHandler.ev_keydown
AskUser_ev_keydown(key) ==
  IF key \in MODIFIER_KEYS THEN ev_default ELSE on_exit

\* AskUserEventHandler.ev_mousebuttondown
AskUser_ev_mousebuttondown == on_exit

\* InventoryActivateHandler / InventoryDropHandler .on_item_selected
on_item_selected(h, item) ==
  /\ Return(IF h = "InventoryActivate"
            THEN GetAction(item, "player")
            ELSE DropItem("player", item))
  /\ UNCHANGED << event_handler, message_log, mouse_location, log_length, cursor >>

\* The except IndexError clause of InventoryEventHandler.ev_keydown.
invalid_entry ==
  /\ message_log' = add_message(message_log, "Invalid entry.", "invalid")
  /\ Return(None)
  /\ UNCHANGED << event_handler, mouse_location, log_length, cursor >>

\* ev_keydown that takes only the offsets below 26 as selections.
Inventory_ev_keydown_below26(h, key) ==
  LET index == key - KeySym.a IN
  IF 0 <= index /\ index < 26
  THEN IF index < Len(items)
       THEN on_item_selected(h, items[index + 1])
       ELSE invalid_entry
  ELSE AskUser_ev_keydown(key)

\* ev_keydown that counts the items from the end of the inventory.
Inventory_ev_keydown_reversed(h, key) ==
  LET index == key - KeySym.a IN
  IF 0 <= index /\ index <= 26
  THEN IF index < Len(items)
       THEN on_item_selected(h, items[Len(items) - index])
       ELSE invalid_entry
  ELSE AskUser_ev_keydown(key)

\* InventoryEventHandler.ev_keydown; items[index] is 0-based in the source.
Inventory_ev_keydown(h, key) ==
  LET index == key - KeySym.a IN
  IF 0 <= index /\ index <= 26
  THEN IF index < Len(items)
       THEN on_item_selected(h, items[index + 1])
       ELSE invalid_entry
  ELSE AskUser_ev_keydown(key)

\* ev_keydown with the two menu keys exchanged.
MainGame_ev_keydown_swapped_menus(key) ==
  IF key \in DOMAIN MOVE_KEYS
  THEN /\ Return(BumpAction("player", MOVE_KEYS[key][1], MOVE_KEYS[key][2]))
       /\ UNCHANGED << event_handler, message_log, mouse_location, log_length, cursor >>
  ELSE IF key \in WAIT_KEYS
  THEN /\ Return(WaitAction("player"))
       /\ UNCHANGED << event_handler, message_log, mouse_location, log_length, cursor >>
  ELSE IF key = KeySym.ESCAPE
  THEN /\ SystemExit
       /\ UNCHANGED << event_handler, message_log, mouse_location, log_length, cursor >>
  ELSE IF key = KeySym.v
  THEN /\ event_handler' = "HistoryViewer"
       /\ HistoryViewer_init
       /\ Return(None)
       /\ UNCHANGED << message_log, mouse_location >>
  ELSE IF key = KeySym.g
  THEN /\ Return(PickupAction("player"))
       /\ UNCHANGED << event_handler, message_log, mouse_location, log_length, cursor >>
  ELSE IF key = KeySym.i
  THEN /\ event_handler' = "InventoryDrop"
       /\ Return(None)
       /\ UNCHANGED << message_log, mouse_location, log_length, cursor >>
  ELSE IF key = KeySym.d
  THEN /\ event_handler' = "InventoryActivate"
       /\ Return(None)
       /\ UNCHANGED << message_log, mouse_location, log_length, cursor >>
  ELSE ev_default

\* MainGameEventHandler.ev_keydown
MainGame_ev_keydown(key) ==
  IF key \in DOMAIN MOVE_KEYS
  THEN /\ Return(BumpAction("player", MOVE_KEYS[key][1], MOVE_KEYS[key][2]))
       /\ UNCHANGED << event_handler, message_log, mouse_location, log_length, cursor >>
  ELSE IF key \in WAIT_KEYS
  THEN /\ Return(WaitAction("player"))
       /\ UNCHANGED << event_handler, message_log, mouse_location, log_length, cursor >>
  ELSE IF key = KeySym.ESCAPE
  THEN /\ SystemExit
       /\ UNCHANGED << event_handler, message_log, mouse_location, log_length, cursor >>
  ELSE IF key = KeySym.v
  THEN /\ event_handler' = "HistoryViewer"
       /\ HistoryViewer_init
       /\ Return(None)
       /\ UNCHANGED << message_log, mouse_location >>
  ELSE IF key = KeySym.g
  THEN /\ Return(PickupAction("player"))
       /\ UNCHANGED << event_handler, message_log, mouse_location, log_length, cursor >>
  ELSE IF key = KeySym.i
  THEN /\ event_handler' = "InventoryActivate"
       /\ Return(None)
       /\ UNCHANGED << message_log, mouse_location, log_length, cursor >>
  ELSE IF key = KeySym.d
  THEN /\ event_handler' = "InventoryDrop"
       /\ Return(None)
       /\ UNCHANGED << message_log, mouse_location, log_length, cursor >>
  ELSE ev_default

\* GameOverEventHandler.ev_keydown
GameOver_ev_keydown(key) ==
  IF key = KeySym.ESCAPE
  THEN /\ SystemExit
       /\ UNCHANGED << event_handler, message_log, mouse_location, log_length, cursor >>
  ELSE ev_default

\* A cursor move that forgets the clamp at the bottom of the log.
MoveCursor_unclamped(c, adjust, len) ==
  IF adjust < 0 /\ c = 0 THEN len - 1
  ELSE IF adjust > 0 /\ c = len - 1 THEN 0
  ELSE IF c + adjust > 0 THEN c + adjust ELSE 0

\* A cursor move that wraps whenever the move would leave the log.
MoveCursor_wraps_past_edge(c, adjust, len) ==
  IF adjust < 0 /\ c + adjust < 0 THEN len - 1
  ELSE IF adjust > 0 /\ c + adjust > len - 1 THEN 0
  ELSE c + adjust

\* The cursor a vertical key leaves: wrap on the edge, else clamp.
MoveCursor(c, adjust, len) ==
  IF adjust < 0 /\ c = 0 THEN len - 1
  ELSE IF adjust > 0 /\ c = len - 1 THEN 0
  ELSE LET moved == IF c + adjust < len - 1 THEN c + adjust ELSE len - 1
       IN  IF moved > 0 THEN moved ELSE 0

\* ev_keydown with the targets of Home and End exchanged.
HistoryViewer_ev_keydown_home_end_swapped(key) ==
  IF key \in DOMAIN CURSOR_Y_KEYS
  THEN /\ cursor' = MoveCursor(cursor, CURSOR_Y_KEYS[key], log_length)
       /\ Return(None)
       /\ UNCHANGED << event_handler, message_log, mouse_location, log_length >>
  ELSE IF key = KeySym.HOME
  THEN /\ cursor' = log_length - 1
       /\ Return(None)
       /\ UNCHANGED << event_handler, message_log, mouse_location, log_length >>
  ELSE IF key = KeySym.END
  THEN /\ cursor' = 0
       /\ Return(None)
       /\ UNCHANGED << event_handler, message_log, mouse_location, log_length >>
  ELSE /\ MainGameEventHandler_init
       /\ Return(None)
       /\ UNCHANGED << message_log, mouse_location >>

\* ev_keydown that ignores the modifier keys, as a modal prompt does.
HistoryViewer_ev_keydown_ignores_modifiers(key) ==
  IF key \in DOMAIN CURSOR_Y_KEYS
  THEN /\ cursor' = MoveCursor(cursor, CURSOR_Y_KEYS[key], log_length)
       /\ Return(None)
       /\ UNCHANGED << event_handler, message_log, mouse_location, log_length >>
  ELSE IF key = KeySym.HOME
  THEN /\ cursor' = 0
       /\ Return(None)
       /\ UNCHANGED << event_handler, message_log, mouse_location, log_length >>
  ELSE IF key = KeySym.END
  THEN /\ cursor' = log_length - 1
       /\ Return(None)
       /\ UNCHANGED << event_handler, message_log, mouse_location, log_length >>
  ELSE IF key \in MODIFIER_KEYS
  THEN ev_default
  ELSE /\ MainGameEventHandler_init
       /\ Return(None)
       /\ UNCHANGED << message_log, mouse_location >>

\* HistoryViewer.ev_keydown
HistoryViewer_ev_keydown(key) ==
  IF key \in DOMAIN CURSOR_Y_KEYS
  THEN /\ cursor' = MoveCursor(cursor, CURSOR_Y_KEYS[key], log_length)
       /\ Return(None)
       /\ UNCHANGED << event_handler, message_log, mouse_location, log_length >>
  ELSE IF key = KeySym.HOME
  THEN /\ cursor' = 0
       /\ Return(None)
       /\ UNCHANGED << event_handler, message_log, mouse_location, log_length >>
  ELSE IF key = KeySym.END
  THEN /\ cursor' = log_length - 1
       /\ Return(None)
       /\ UNCHANGED << event_handler, message_log, mouse_location, log_length >>
  ELSE /\ MainGameEventHandler_init
       /\ Return(None)
       /\ UNCHANGED << message_log, mouse_location >>

\* EventDispatch.dispatch: the ev_* method of handler h for the event.
dispatch(h, e) ==
  CASE Type(e) = "Quit" -> ev_quit
    [] Type(e) = "MouseMotion" -> ev_mousemotion(TileX(e), TileY(e))
    [] Type(e) = "MouseButtonDown" ->
         IF h \in AskUserHandlers THEN AskUser_ev_mousebuttondown ELSE ev_default
    [] Type(e) = "KeyDown" ->
         ( CASE h = "MainGame" -> MainGame_ev_keydown(Sym(e))
             [] h = "GameOver" -> GameOver_ev_keydown(Sym(e))
             [] h = "HistoryViewer" -> HistoryViewer_ev_keydown(Sym(e))
             [] h \in InventoryHandlers -> Inventory_ev_keydown(h, Sym(e)) )
    [] OTHER -> ev_default

\* handle_action looked up on the engine's handler after the dispatch.
HandleActionReceiver_activated(h, activated) == activated

\* The handler whose handle_action takes the dispatched action: the one
\* handle_events runs on, not the one dispatch may have activated.
HandleActionReceiver(h, activated) == h

\* EventHandler.handle_events, up to the call of handle_action: the active
\* handler takes the event and dispatches it.
handle_events(e) ==
  /\ pc = "idle"
  /\ self' = event_handler
  /\ event' = e
  /\ dispatch(event_handler, e)
  /\ message_log' # message_log => Len(message_log) < MaxLog
  /\ receiver' = IF pc' = "exited" THEN "none"
                 ELSE HandleActionReceiver(event_handler, event_handler')
  /\ perform_result' = NotCalled
  /\ super_ret' = "-"
  /\ returned' = "-"
  /\ calls' = << >>
  /\ pre_len' = Len(message_log)
  /\ UNCHANGED items
  /\ Tallied(0, 0, 0, 0)
  /\ UNCHANGED rendered

\* The events of the event source, by kind.
QuitEvent == handle_events(Quit)
MouseMotionEvent == \E tile \in Tiles : handle_events(MouseMotion(tile[1], tile[2]))
MouseButtonDownEvent == handle_events(MouseButtonDown)
KeyDownEvent == \E key \in Keys : handle_events(KeyDown(key))
UnhandledEvent == handle_events(OtherEvent)

\* ------------------------------------------------------------- handle_action
\* EventHandler.handle_action returns r: to AskUserEventHandler.handle_action
\* when the receiver is a modal prompt, else to handle_events.
BaseReturn(r) ==
  IF receiver \in AskUserHandlers
  THEN pc' = "askuser" /\ super_ret' = r /\ UNCHANGED returned
  ELSE pc' = "return" /\ returned' = r /\ UNCHANGED super_ret

\* EventHandler.handle_action: no action, nothing happens.
HandleActionNone ==
  /\ pc = "handle_action"
  /\ action = None
  /\ BaseReturn("False")
  /\ UNCHANGED << event_handler, message_log, items, mouse_location,
                  log_length, cursor, self, receiver, event, action,
                  perform_result, calls, pre_len >>
  /\ Tallied(0, 0, 0, 0)
  /\ UNCHANGED rendered

\* handle_action that goes straight to update_fov.
AfterPerform_skips_enemies == "update_fov"

\* Where EventHandler.handle_action goes on after perform returned.
AfterPerform == "enemy_turns"

\* action.perform() returns: the world has changed, the player may have died.
PerformSucceeds ==
  /\ pc = "handle_action"
  /\ action # None
  /\ \E inv \in PerformItems(action, items), log \in MayReport(message_log),
        died \in BOOLEAN :
       /\ items' = inv
       /\ message_log' = log
       /\ event_handler' = PlayerDies(died, event_handler)
  /\ perform_result' = Succeeded
  /\ calls' = Append(calls, "perform")
  /\ pc' = AfterPerform
  /\ UNCHANGED << mouse_location, log_length, cursor, self, receiver, event,
                  action, super_ret, returned, pre_len >>
  /\ Tallied(1, 0, 0, 0)
  /\ UNCHANGED rendered

\* The except clause without its return: the turn goes on.
PerformImpossible_falls_through ==
  /\ pc = "handle_action"
  /\ action # None
  /\ Len(message_log) < MaxLog
  /\ \E reason \in Reasons :
       /\ perform_result' = Impossible(reason)
       /\ message_log' = add_message(message_log, reason, "impossible")
  /\ calls' = Append(calls, "perform")
  /\ pc' = "enemy_turns"
  /\ UNCHANGED << event_handler, items, mouse_location, log_length, cursor,
                  self, receiver, event, action, super_ret, returned, pre_len >>
  /\ Tallied(0, 0, 0, 1)
  /\ UNCHANGED rendered

\* The except clause that swallows Impossible without logging the reason.
PerformImpossible_unlogged ==
  /\ pc = "handle_action"
  /\ action # None
  /\ \E reason \in Reasons : perform_result' = Impossible(reason)
  /\ calls' = Append(calls, "perform")
  /\ BaseReturn("False")
  /\ UNCHANGED << event_handler, message_log, items, mouse_location,
                  log_length, cursor, self, receiver, event, action, pre_len >>
  /\ Tallied(0, 0, 0, 1)
  /\ UNCHANGED rendered

\* action.perform() raises Impossible: the reason is logged, no enemy turn.
PerformImpossible ==
  /\ pc = "handle_action"
  /\ action # None
  /\ Len(message_log) < MaxLog
  /\ \E reason \in Reasons :
       /\ perform_result' = Impossible(reason)
       /\ message_log' = add_message(message_log, reason, "impossible")
  /\ calls' = Append(calls, "perform")
  /\ BaseReturn("False")
  /\ UNCHANGED << event_handler, items, mouse_location, log_length, cursor,
                  self, receiver, event, action, pre_len >>
  /\ Tallied(0, 0, 0, 1)
  /\ UNCHANGED rendered

\* action.perform() raises anything else: not caught, the process ends.
PerformFatal ==
  /\ pc = "handle_action"
  /\ action # None
  /\ perform_result' = Fatal
  /\ calls' = Append(calls, "perform")
  /\ pc' = "crashed"
  /\ UNCHANGED << event_handler, message_log, items, mouse_location,
                  log_length, cursor, self, receiver, event, action,
                  super_ret, returned, pre_len >>
  /\ Tallied(0, 0, 0, 0)
  /\ UNCHANGED rendered

\* engine.handle_enemy_turns(): the enemies act, the player may die.
HandleEnemyTurns ==
  /\ pc = "enemy_turns"
  /\ \E log \in MayReport(message_log), died \in BOOLEAN :
       /\ message_log' = log
       /\ event_handler' = PlayerDies(died, event_handler)
  /\ calls' = Append(calls, "handle_enemy_turns")
  /\ pc' = "update_fov"
  /\ UNCHANGED << items, mouse_location, log_length, cursor, self, receiver,
                  event, action, perform_result, super_ret, returned, pre_len >>
  /\ Tallied(0, 1, 0, 0)
  /\ UNCHANGED rendered

\* engine.update_fov(), and EventHandler.handle_action returns True.
UpdateFov ==
  /\ pc = "update_fov"
  /\ calls' = Append(calls, "update_fov")
  /\ BaseReturn("True")
  /\ UNCHANGED << event_handler, message_log, items, mouse_location,
                  log_length, cursor, self, receiver, event, action,
                  perform_result, pre_len >>
  /\ Tallied(0, 0, 1, 0)
  /\ UNCHANGED rendered

\* AskUserEventHandler.handle_action that leaves the prompt active.
AskUserHandleAction_stays ==
  /\ pc = "askuser"
  /\ returned' = super_ret
  /\ pc' = "return"
  /\ UNCHANGED << event_handler, message_log, items, mouse_location,
                  log_length, cursor, self, receiver, event, action,
                  perform_result, super_ret, calls, pre_len >>
  /\ Tallied(0, 0, 0, 0)
  /\ UNCHANGED rendered

\* AskUserEventHandler.handle_action that exits the prompt whatever
\* super().handle_action returned.
AskUserHandleAction_always_exits ==
  /\ pc = "askuser"
  /\ event_handler' = "MainGame"
  /\ returned' = super_ret
  /\ pc' = "return"
  /\ UNCHANGED << message_log, items, mouse_location, log_length, cursor,
                  self, receiver, event, action, perform_result, super_ret,
                  calls, pre_len >>
  /\ Tallied(0, 0, 0, 0)
  /\ UNCHANGED rendered

\* AskUserEventHandler.handle_action, after super().handle_action returned.
AskUserHandleAction ==
  /\ pc = "askuser"
  /\ IF super_ret = "True"
     THEN /\ event_handler' = "MainGame"
          /\ returned' = "True"
     ELSE /\ returned' = "False"
          /\ UNCHANGED event_handler
  /\ pc' = "return"
  /\ UNCHANGED << message_log, items, mouse_location, log_length, cursor,
                  self, receiver, event, action, perform_result, super_ret,
                  calls, pre_len >>
  /\ Tallied(0, 0, 0, 0)
  /\ UNCHANGED rendered

\* The frame of handle_events between two events: no event is in hand.
NoFrame ==
  /\ self = "none"
  /\ receiver = "none"
  /\ event = NoEvent
  /\ action = None
  /\ perform_result = NotCalled
  /\ super_ret = "-"
  /\ returned = "-"
  /\ calls = << >>
  /\ pre_len = 0

\* EventHandler.handle_events returns; the loop waits for the next event.
HandleEventsReturn ==
  /\ pc = "return"
  /\ pc' = "idle"
  /\ self' = "none"
  /\ receiver' = "none"
  /\ event' = NoEvent
  /\ action' = None
  /\ perform_result' = NotCalled
  /\ super_ret' = "-"
  /\ returned' = "-"
  /\ calls' = << >>
  /\ pre_len' = 0
  /\ UNCHANGED << event_handler, message_log, items, mouse_location,
                  log_length, cursor >>
  /\ Tallied(0, 0, 0, 0)
  /\ UNCHANGED rendered

\* ------------------------------------------------------------- rendering
\* InventoryActivateHandler.TITLE and InventoryDropHandler.TITLE
TITLE(h) ==
  IF h = "InventoryActivate"
  THEN "Select an item to use"
  ELSE "Select an item to drop"

\* What on_render drew last: the frame (x, y, width, height) of the menu
\* and the x-coordinate the player had; width 0 before any menu is drawn.
Frame(player_x, x, y, width, height) == << player_x, x, y, width, height >>
NotRendered == Frame(0, 0, 0, 0, 0)
PlayerX(r) == r[1]
FrameLeft(r) == r[2]
FrameWidth(r) == r[4]
FrameHeight(r) == r[5]

\* The menu moves right for a player on column 40 or left of it.
MenuX_threshold_40(player_x) == IF player_x <= 40 THEN 40 ELSE 0

\* The left column of the menu: right half for a player on the left.
MenuX(player_x) == IF player_x <= 30 THEN 40 ELSE 0

\* The height of the menu for so many items.
MenuHeight(number_of_items_in_inventory) ==
  IF number_of_items_in_inventory + 2 <= 3
  THEN 3
  ELSE number_of_items_in_inventory + 2

\* InventoryEventHandler.on_render: the frame drawn for the open menu.
on_render ==
  /\ pc = "idle"
  /\ event_handler \in InventoryHandlers
  /\ \E player_x \in 0 .. MaxPlayerX :
       rendered' = Frame(player_x, MenuX(player_x), 0,
                         Len(TITLE(event_handler)) + 4,
                         MenuHeight(Len(items)))
  /\ UNCHANGED << event_handler, message_log, items, mouse_location,
                  log_length, cursor, pc, self, receiver, event, action,
                  perform_result, super_ret, returned, calls, pre_len, tally >>

\* ------------------------------------------------------------- specification
\* The engine after construction: the main game handler, an empty log, an
\* empty inventory, the mouse on tile (0, 0), no event taken yet.
Init ==
  /\ event_handler = "MainGame"
  /\ message_log = << >>
  /\ items = << >>
  /\ mouse_location = <<0, 0>>
  /\ log_length = 0
  /\ cursor = -1
  /\ pc = "idle"
  /\ NoFrame
  /\ rendered = NotRendered
  /\ tally = << 0, 0, 0 >>

Next ==
  \/ QuitEvent
  \/ MouseMotionEvent
  \/ MouseButtonDownEvent
  \/ KeyDownEvent
  \/ UnhandledEvent
  \/ HandleActionNone
  \/ PerformSucceeds
  \/ PerformImpossible
  \/ PerformFatal
  \/ HandleEnemyTurns
  \/ UpdateFov
  \/ AskUserHandleAction
  \/ HandleEventsReturn

Spec == Init /\ [][Next]_vars

\* A game in progress: the log already holds up to MaxHistory messages.
InitHistory ==
  /\ event_handler = "MainGame"
  /\ message_log \in { [n \in 1 .. len |-> Narrative] : len \in 0 .. MaxHistory }
  /\ items = << >>
  /\ mouse_location = <<0, 0>>
  /\ log_length = 0
  /\ cursor = -1
  /\ pc = "idle"
  /\ NoFrame
  /\ rendered = NotRendered
  /\ tally = << 0, 0, 0 >>

SpecHistory == InitHistory /\ [][Next]_vars

\* The inventories the player can hold: the items of the world, in any
\* order, none twice.
Inventories ==
  { inv \in UNION { [1 .. n -> Items] : n \in 0 .. NumItems } :
      \A m, n \in DOMAIN inv : inv[m] = inv[n] => m = n }

\* An inventory menu is open between two events, on any inventory.
InitRender ==
  /\ event_handler \in InventoryHandlers
  /\ message_log = << >>
  /\ items \in Inventories
  /\ mouse_location = <<0, 0>>
  /\ log_length = 0
  /\ cursor = -1
  /\ pc = "idle"
  /\ NoFrame
  /\ rendered = NotRendered
  /\ tally = << 0, 0, 0 >>

\* The frames of the open menu, for every place of the player.
NextRender == on_render

SpecRender == InitRender /\ [][NextRender]_vars


\* ------------------------------------------------------------- properties
Last(log) == log[Len(log)]
TurnCalls == << "perform", "handle_enemy_turns", "update_fov" >>

\* C1: when perform succeeds, the enemy turn is resolved exactly once, then
\* the field of view is recomputed exactly once, in that order, and
\* handle_action returns True, on whatever handler it was called.
C1_SuccessRunsTurn ==
  perform_result = Succeeded =>
    /\ pc = "enemy_turns" => calls = SubSeq(TurnCalls, 1, 1)
    /\ pc = "update_fov" => calls = SubSeq(TurnCalls, 1, 2)
    /\ pc = "askuser" => calls = TurnCalls /\ super_ret = "True"
    /\ pc = "return" => calls = TurnCalls /\ returned = "True"
    /\ pc \in { "enemy_turns", "update_fov", "askuser", "return" }

C1_Witness ==
  /\ pc = "return"
  /\ perform_result = Succeeded
  /\ self = "InventoryDrop"
  /\ calls = TurnCalls
  /\ returned = "True"

\* C2: when perform raises Impossible(reason), handle_action returns False,
\* exactly one message, carrying that reason in the impossible category, is
\* appended to the log, and neither the enemy turn nor the field-of-view
\* recompute is called for that event.
C2_ImpossibleSkipsTurn ==
  Outcome(perform_result) = "Impossible" =>
    /\ calls = << "perform" >>
    /\ Len(message_log) = pre_len + 1
    /\ Last(message_log) = Message(Reason(perform_result), "impossible")
    /\ pc = "askuser" => super_ret = "False"
    /\ pc = "return" => returned = "False"
    /\ pc \in { "askuser", "return" }

C2_Witness ==
  /\ pc = "return"
  /\ perform_result = Impossible("That way is blocked.")
  /\ returned = "False"
  /\ Last(message_log) = Message("That way is blocked.", "impossible")

\* C3: when the handle_action of a modal prompt (InventoryActivate,
\* InventoryDrop) returns True, MainGame is the active handler right after;
\* when it returns False, no step of it changes the active handler.
ModalReturnsTrue ==
  pc = "return" /\ self \in AskUserHandlers /\ returned = "True"
    => event_handler = "MainGame"

ModalReturningFalse ==
  ( /\ receiver \in AskUserHandlers
    /\ pc \in { "handle_action", "askuser" }
    /\ super_ret' = "False" \/ returned' = "False" )
  => event_handler' = event_handler

C3_ModalExit == []ModalReturnsTrue /\ [][ModalReturningFalse]_vars

C3_Witness ==
  /\ pc = "return"
  /\ self = "InventoryActivate"
  /\ returned = "True"
  /\ event_handler = "MainGame"

\* C4: once GameOver is the active handler it stays the active handler;
\* no step of event processing replaces it.
C4_GameOverIsTerminal ==
  [][event_handler = "GameOver" => event_handler' = "GameOver"]_vars

\* C5: a quit event ends the process on every handler: it never returns,
\* performs no action and changes neither the active handler nor the log.
QuitArrives ==
  pc = "idle" /\ Type(event') = "Quit"
    => /\ pc' = "exited"
       /\ action' = None
       /\ calls' = << >>
       /\ event_handler' = event_handler
       /\ message_log' = message_log

C5_QuitTerminates == [][QuitArrives]_vars /\ [][pc = "exited" => pc' = "exited"]_vars

C5_Witness ==
  /\ pc = "exited"
  /\ event = Quit
  /\ self = "GameOver"

\* C6: exactly one handler variant is active, and an event is seen by one
\* handler only, the one active when it arrived: that handler interprets it
\* and runs handle_action on the result, also when interpreting it
\* activated another handler.
C6_OneHandlerPerEvent ==
  /\ event_handler \in Handlers
  /\ pc # "idle" => self \in Handlers
  /\ pc \in { "handle_action", "enemy_turns", "update_fov", "askuser", "return" }
       => receiver = self
  /\ receiver \in { self, "none" }

C6_Witness ==
  /\ pc = "handle_action"
  /\ self = "MainGame"
  /\ event_handler = "InventoryActivate"
  /\ receiver = "MainGame"

\* C7, as claimed: while HistoryViewer is active its cursor lies in
\* [0, log_length - 1], whatever the length of the log at entry.
C7_CursorInRange ==
  event_handler = "HistoryViewer" => 0 <= cursor /\ cursor <= log_length - 1

\* C7, amended: on a log that was not empty at entry the cursor lies in
\* [0, log_length - 1]; on an empty log it is -1 or 0.
C7_CursorInRangeOfNonEmptyLog ==
  event_handler = "HistoryViewer" =>
    IF log_length >= 1
    THEN 0 <= cursor /\ cursor <= log_length - 1
    ELSE cursor \in { -1, 0 }

C7_Witness ==
  /\ event_handler = "HistoryViewer"
  /\ log_length = 12
  /\ event = KeyDown(KeySym.PAGEUP)
  /\ cursor = 1

\* C8: a vertical key with delta d moves cursor c to log_length - 1 if d < 0
\* and c = 0, to 0 if d > 0 and c = log_length - 1, and else to
\* max(0, min(c + d, log_length - 1)): the wrap fires on the edge only.
Max(m, n) == IF m >= n THEN m ELSE n
Min(m, n) == IF m <= n THEN m ELSE n
Delta(key) ==
  CASE key = KeySym.UP -> -1
    [] key = KeySym.DOWN -> 1
    [] key = KeySym.PAGEUP -> -10
    [] key = KeySym.PAGEDOWN -> 10

VerticalKeyArrives ==
  ( /\ pc = "idle"
    /\ event_handler = "HistoryViewer"
    /\ Type(event') = "KeyDown"
    /\ Sym(event') \in { KeySym.UP, KeySym.DOWN, KeySym.PAGEUP, KeySym.PAGEDOWN } )
  => LET d == Delta(Sym(event')) IN
     /\ (d < 0 /\ cursor = 0) => cursor' = log_length - 1
     /\ (d > 0 /\ cursor = log_length - 1) => cursor' = 0
     /\ (~(d < 0 /\ cursor = 0) /\ ~(d > 0 /\ cursor = log_length - 1))
          => cursor' = Max(0, Min(cursor + d, log_length - 1))
     /\ (log_length = 5 /\ cursor = 0 /\ d = 10) => cursor' = 4
     /\ (log_length = 5 /\ cursor = 4 /\ d = 1) => cursor' = 0
     /\ (log_length = 5 /\ cursor = 4 /\ d = -1) => cursor' = 3

C8_CursorNavigation == [][VerticalKeyArrives]_vars

C8_Witness ==
  /\ pc = "handle_action"
  /\ self = "HistoryViewer"
  /\ event = KeyDown(KeySym.UP)
  /\ log_length = 5
  /\ cursor = 4

\* C9: in an inventory menu a key whose offset from a is in [0, 26] and at
\* or past the item count appends exactly one "Invalid entry." message of
\* the invalid category, returns no action, runs no turn and leaves the
\* same menu active.
C9_InvalidEntry ==
  ( /\ pc \in { "handle_action", "askuser", "return" }
    /\ self \in InventoryHandlers
    /\ Type(event) = "KeyDown"
    /\ 0 <= Sym(event) - KeySym.a /\ Sym(event) - KeySym.a <= 26
    /\ Sym(event) - KeySym.a >= Len(items)
    /\ perform_result = NotCalled )
  => /\ action = None
     /\ Len(message_log) = pre_len + 1
     /\ Last(message_log) = Message("Invalid entry.", "invalid")
     /\ calls = << >>
     /\ event_handler = self
     /\ pc = "return" => returned = "False"

C9_Witness ==
  /\ pc = "return"
  /\ self = "InventoryDrop"
  /\ event = KeyDown(KeySym.LEFTBRACE)
  /\ Len(items) = 1
  /\ Last(message_log) = InvalidEntry
  /\ event_handler = "InventoryDrop"
  /\ returned = "False"

\* C10: in an inventory menu letter number i (a = 0 .. z = 25) below the
\* item count selects the i-th item of the inventory: InventoryActivate
\* returns the use action of that item for the player, InventoryDrop the
\* drop action of the player and that item.
C10_SelectionMapping ==
  ( /\ pc = "handle_action"
    /\ self \in InventoryHandlers
    /\ Type(event) = "KeyDown"
    /\ Sym(event) \in Letters
    /\ Sym(event) - KeySym.a < Len(items) )
  => /\ Item(action) = items[Sym(event) - KeySym.a + 1]
     /\ Entity(action) = "player"
     /\ Kind(action) = IF self = "InventoryActivate" THEN "ItemAction" ELSE "DropItem"
     /\ event_handler = self

C10_Witness ==
  /\ pc = "handle_action"
  /\ self = "InventoryDrop"
  /\ event = KeyDown(KeySym.b)
  /\ Len(items) = 2
  /\ action = DropItem("player", items[2])

\* C11: in the history viewer Home puts the cursor on 0 and End on
\* log_length - 1, whatever the cursor was; neither changes the active
\* handler or log_length, and neither performs an action.
HomeOrEnd(e) ==
  Type(e) = "KeyDown" /\ Sym(e) \in { KeySym.HOME, KeySym.END }

HomeOrEndArrives ==
  ( pc = "idle" /\ event_handler = "HistoryViewer" /\ HomeOrEnd(event') )
  => /\ cursor' = IF Sym(event') = KeySym.HOME THEN 0 ELSE log_length - 1
     /\ event_handler' = "HistoryViewer"
     /\ log_length' = log_length
     /\ action' = None

HomeOrEndHandled ==
  ( self = "HistoryViewer" /\ HomeOrEnd(event) )
  => /\ pc \in { "handle_action", "return" }
     /\ event_handler = "HistoryViewer"
     /\ cursor = IF Sym(event) = KeySym.HOME THEN 0 ELSE log_length - 1
     /\ calls = << >>
     /\ perform_result = NotCalled
     /\ pc = "return" => returned = "False"

C11_HomeEnd == [][HomeOrEndArrives]_vars /\ []HomeOrEndHandled

C11_Witness ==
  /\ pc = "return"
  /\ self = "HistoryViewer"
  /\ event = KeyDown(KeySym.HOME)
  /\ log_length = 5
  /\ cursor = 0

\* C12: in the history viewer every key but Up, Down, Page-Up, Page-Down,
\* Home and End makes MainGame the active handler and performs no action:
\* no enemy turn, no field-of-view recompute, no change of the log.
ViewerExitKey(e) ==
  /\ Type(e) = "KeyDown"
  /\ Sym(e) \notin { KeySym.UP, KeySym.DOWN, KeySym.PAGEUP, KeySym.PAGEDOWN,
                     KeySym.HOME, KeySym.END }

ViewerExitKeyArrives ==
  ( pc = "idle" /\ event_handler = "HistoryViewer" /\ ViewerExitKey(event') )
  => /\ event_handler' = "MainGame"
     /\ action' = None
     /\ message_log' = message_log

ViewerExitKeyHandled ==
  ( self = "HistoryViewer" /\ ViewerExitKey(event) )
  => /\ pc \in { "handle_action", "return" }
     /\ event_handler = "MainGame"
     /\ calls = << >>
     /\ perform_result = NotCalled
     /\ Len(message_log) = pre_len
     /\ pc = "return" => returned = "False"

C12_OtherKeyClosesViewer ==
  /\ [][ViewerExitKeyArrives]_vars
  /\ []ViewerExitKeyHandled
  /\ [][self = "HistoryViewer" => message_log' = message_log]_vars

C12_Witness ==
  /\ pc = "return"
  /\ self = "HistoryViewer"
  /\ event = KeyDown(KeySym.LSHIFT)
  /\ event_handler = "MainGame"
  /\ log_length = 0

\* C13: in MainGame v activates HistoryViewer, i InventoryActivate and d
\* InventoryDrop; the key press yields no action, so nothing is performed
\* and no enemy turn or field-of-view recompute runs for it.
ModeOf(key) ==
  CASE key = KeySym.v -> "HistoryViewer"
    [] key = KeySym.i -> "InventoryActivate"
    [] key = KeySym.d -> "InventoryDrop"

ModeKey(e) ==
  Type(e) = "KeyDown" /\ Sym(e) \in { KeySym.v, KeySym.i, KeySym.d }

C13_ModeSwitches ==
  ( self = "MainGame" /\ ModeKey(event) )
  => /\ pc \in { "handle_action", "return" }
     /\ event_handler = ModeOf(Sym(event))
     /\ action = None
     /\ calls = << >>
     /\ perform_result = NotCalled
     /\ pc = "return" => returned = "False"

C13_Witness ==
  /\ pc = "return"
  /\ self = "MainGame"
  /\ event = KeyDown(KeySym.d)
  /\ event_handler = "InventoryDrop"

\* C14: in a modal prompt a key press that is not taken as a selection
\* (its offset from a is outside [0, 26]) is ignored when it is one of the
\* six modifier keys, and otherwise, like any mouse click, makes MainGame
\* the active handler; in each case no action results and no turn runs.
DefaultInput(e) ==
  \/ Type(e) = "MouseButtonDown"
  \/ Type(e) = "KeyDown" /\ ~(0 <= Sym(e) - KeySym.a /\ Sym(e) - KeySym.a <= 26)

PureModifier(e) ==
  /\ Type(e) = "KeyDown"
  /\ Sym(e) \in { KeySym.LSHIFT, KeySym.RSHIFT, KeySym.LCTRL, KeySym.RCTRL,
                  KeySym.LALT, KeySym.RALT }

C14_AskUserDefault ==
  ( self \in AskUserHandlers /\ DefaultInput(event) )
  => /\ pc \in { "handle_action", "askuser", "return" }
     /\ event_handler = IF PureModifier(event) THEN self ELSE "MainGame"
     /\ action = None
     /\ calls = << >>
     /\ perform_result = NotCalled
     /\ Len(message_log) = pre_len
     /\ pc = "askuser" => super_ret = "False"
     /\ pc = "return" => returned = "False"

C14_Witness ==
  /\ pc = "return"
  /\ self = "InventoryActivate"
  /\ event = KeyDown(KeySym.RALT)
  /\ event_handler = "InventoryActivate"
  /\ Len(items) = 1

\* C15: when the action of an item selected in an inventory menu fails
\* with Impossible, the same menu is still the active handler after the
\* event, the reason is logged, no enemy turn runs, and the next letter
\* key is again taken as a selection by that menu.
MenuImpossible ==
  ( self \in InventoryHandlers /\ Outcome(perform_result) = "Impossible" )
  => /\ event_handler = self
     /\ Kind(action) \in { "ItemAction", "DropItem" }
     /\ Last(message_log) = Message(Reason(perform_result), "impossible")
     /\ calls = << "perform" >>
     /\ pc = "return" => returned = "False"

MenuImpossibleReturns ==
  ( /\ pc = "return"
    /\ self \in InventoryHandlers
    /\ Outcome(perform_result) = "Impossible" )
  => /\ pc' = "idle"
     /\ event_handler' = self
     /\ items' = items

MenuTakesLetter ==
  ( /\ pc = "idle"
    /\ event_handler \in InventoryHandlers
    /\ Type(event') = "KeyDown"
    /\ Sym(event') \in Letters )
  => /\ self' = event_handler
     /\ receiver' = event_handler
     /\ LET index == Sym(event') - KeySym.a IN
        IF index < Len(items)
        THEN /\ Item(action') = items[index + 1]
             /\ Kind(action') \in { "ItemAction", "DropItem" }
        ELSE /\ action' = None
             /\ message_log' = Append(message_log, InvalidEntry)

C15_RetryAfterImpossible ==
  /\ []MenuImpossible
  /\ [][MenuImpossibleReturns]_vars
  /\ [][MenuTakesLetter]_vars

C15_Witness ==
  /\ pc = "return"
  /\ self = "InventoryActivate"
  /\ event = KeyDown(KeySym.b)
  /\ Outcome(perform_result) = "Impossible"
  /\ event_handler = "InventoryActivate"
  /\ Len(message_log) = 1

\* C16: the navigable range of a history viewer is fixed at entry:
\* log_length is the length of the log when the viewer was entered, no key
\* press and no append changes it while the viewer stays active, the cursor
\* is never on a message appended after entry, and a viewer entered again
\* takes the length the log has then.
ViewerStays ==
  ( event_handler = "HistoryViewer" /\ event_handler' = "HistoryViewer" )
  => log_length' = log_length

ViewerEntered ==
  ( event_handler # "HistoryViewer" /\ event_handler' = "HistoryViewer" )
  => /\ log_length' = Len(message_log')
     /\ cursor' = log_length' - 1

CursorOffLaterMessages ==
  event_handler = "HistoryViewer"
    => ~(log_length <= cursor /\ cursor < Len(message_log))

C17_LettersOnly ==
  ( self \in InventoryHandlers /\ Type(event) = "KeyDown" )
  => /\ ( \/ Kind(action) \in { "ItemAction", "DropItem" }
          \/ ( Len(message_log) > pre_len /\ action = None ) )
          => ( Sym(event) \in Letters /\ Sym(event) - KeySym.a \in 0 .. 25 )
     /\ Sym(event) \notin Letters
          => /\ action = None
             /\ Len(message_log) = pre_len
             /\ event_handler = IF PureModifier(event) THEN self ELSE "MainGame"

\* C19: a mouse-motion event on a tile of the map records exactly that
\* tile as the hover location, one off the map leaves the hover location
\* as it was; either way the active handler, the log and the turn state
\* are unchanged and no action is performed, on every handler.
MouseMotionArrives ==
  ( pc = "idle" /\ Type(event') = "MouseMotion" )
  => /\ mouse_location' = IF in_bounds(TileX(event'), TileY(event'))
                          THEN << TileX(event'), TileY(event') >>
                          ELSE mouse_location
     /\ event_handler' = event_handler
     /\ message_log' = message_log
     /\ action' = None

MouseMotionHandled ==
  Type(event) = "MouseMotion"
  => /\ pc \in { "handle_action", "askuser", "return" }
     /\ event_handler = self
     /\ calls = << >>
     /\ perform_result = NotCalled
     /\ Len(message_log) = pre_len
     /\ pc = "return" => returned = "False"

MouseMotionStep ==
  Type(event) = "MouseMotion"
  => /\ mouse_location' = mouse_location
     /\ event_handler' = event_handler
     /\ message_log' = message_log
     /\ items' = items

C19_PointerMotion ==
  /\ [][MouseMotionArrives]_vars
  /\ []MouseMotionHandled
  /\ [][MouseMotionStep]_vars

C19_Witness ==
  /\ pc = "return"
  /\ self = "GameOver"
  /\ event = MouseMotion(1, 0)
  /\ mouse_location = << 1, 0 >>

\* C18: the columns of the inventory frame, from its left column x0 to
\* x0 + width - 1 with width the title's length plus 4 and x0 = 40 for a
\* player on x <= 30 and 0 otherwise, never include the player's column,
\* in both inventory menus.
C18_MenuOffPlayer ==
  FrameWidth(rendered) > 0 =>
    /\ FrameWidth(rendered) =
         IF event_handler = "InventoryActivate" THEN 21 + 4 ELSE 22 + 4
    /\ FrameLeft(rendered) = IF PlayerX(rendered) <= 30 THEN 40 ELSE 0
    /\ ~( /\ FrameLeft(rendered) <= PlayerX(rendered)
          /\ PlayerX(rendered) <= FrameLeft(rendered) + FrameWidth(rendered) - 1 )

C18_Witness ==
  /\ event_handler = "InventoryDrop"
  /\ PlayerX(rendered) = 31
  /\ FrameLeft(rendered) = 0
  /\ FrameWidth(rendered) = 26

\* C20: over any sequence of events, as many enemy turns as view
\* recomputes as succeeded performs have run, as many impossible messages
\* were logged as performs failed with Impossible, an event makes at most
\* one perform call, and an event that yields no action changes no count.
Performs == Len(SelectSeq(calls, LAMBDA call : call = "perform"))

C20_TurnAccounting ==
  /\ pc \in { "idle", "askuser", "return", "exited" } => tally = << 0, 0, 0 >>
  /\ Performs <= 1
  /\ ( pc \in { "askuser", "return" } /\ action = None )
       => /\ calls = << >>
          /\ Impossibles(message_log)
               = Impossibles(SubSeq(message_log, 1, pre_len))

C20_Witness ==
  /\ pc = "return"
  /\ self = "InventoryDrop"
  /\ perform_result = Succeeded
  /\ Impossibles(message_log) = 1
  /\ tally = << 0, 0, 0 >>

====
